---- MODULE Spec2Model ----
(***************************************************************************)
(* Model of track_leads_function (src/reddit_lead_tracker_ui.py): one run  *)
(* over the caller's subreddits.  For each subreddit the posts are fetched *)
(* by up to three ranking queries ('new', 'top', 'hot'), cut to the cap,   *)
(* and each post is keyword-filtered and sent to the scoring agent.        *)
(*                                                                         *)
(* A post is represented by its identifier.  A scorer response text is a   *)
(* sequence of lines, a line a sequence of tokens; the token "Score:" is   *)
(* the label the code searches for, "0" and "1" are digit characters and   *)
(* "x" is any other character.                                             *)
(***************************************************************************)
EXTENDS Integers, Sequences, FiniteSets, TLC

VARIABLES
    limit_per_subreddit,      \* argument: the cap per subreddit
    min_score,                \* argument: the acceptance threshold
    pc,                       \* position in track_leads_function
    idx,                      \* index of the current subreddit (1-based)
    all_posts_from_subreddit, \* posts accumulated by the ranking queries
    subreddit_posts,          \* the accumulated posts cut to the cap
    pos,                      \* index of the current post in subreddit_posts
    all_leads,                \* result: the leads
    all_posts_explored,       \* result: one record per analysed post
    stats,                    \* result: the counters
    warning,                  \* the st.warning call of the last step, "none" without one
    scorer_log,               \* history: one entry per lead_tracker_agent.run call:
                              \* "raised", "empty" (no body), "unparseable", "parsed"
    skipped,                  \* history: posts left by the per-post except clause
    fetched,                  \* new_posts, top_posts or hot_posts: what the query
                              \* of the last step returned
    rankings,                 \* history, kept by CollectSpec alone: the listings
                              \* the queries of the current subreddit drew from
    session,                  \* st.session_state: leads, all_posts, search_stats,
                              \* search_completed
    error,                    \* the st.error call of the search handler, "none" without one
    inputs,                   \* the credential fields that are filled, and the
                              \* subreddit and keyword lists of the sidebar
    response_text,            \* score extraction alone: the text it is given
    score_out                 \* score extraction alone: the value of `score` it leaves

vars == << limit_per_subreddit, min_score, pc, idx, all_posts_from_subreddit,
           subreddit_posts, pos, all_leads, all_posts_explored, stats,
           warning, scorer_log, skipped, fetched, rankings, session, error, inputs,
           response_text, score_out >>

\* The state the loop of track_leads_function never touches.
outer == << session, error, inputs, response_text, score_out >>

-----------------------------------------------------------------------------
(* Bounds of the model and constants of the program.                       *)

\* The per-query ceiling of the content API, the literal 1000 of the source,
\* scaled down so that caps below, at and above it can be enumerated.
QueryMax == 2

\* The longest listing a ranking of the larger subreddit holds.
MaxListing == 2

\* The longest line of a scorer response, in tokens.
MaxLineLen == 3

\* The range of the "Minimum relevance score" slider.
MinScoreLo == 1
MinScoreHi == 10

\* The caller's subreddit list: "r1" holds the single post "a", "r2" the
\* posts "b", "c" and "d".
Subreddits == << "r1", "r2" >>

\* The content of the posts.  "a" and "b" carry a keyword, "c" carries none,
\* "d" lacks a field the record is built from, and the body of "a" may be
\* one that cannot be sliced.
WithKeyword == {"a", "b"}

Malformed == {"d"}

MaybeUnsliceable == {"a"}

\* The caps the runs are started with: below, at and above the ceiling.
Caps == {1, QueryMax, QueryMax + 1}

\* The thresholds the runs are started with: both ends of the slider and
\* its default.
MinScores == {MinScoreLo, 7, MinScoreHi}

Alphabet == {"Score:", "0", "1", "x"}

-----------------------------------------------------------------------------
(* Sequences.                                                              *)

Min(a, b) == IF a <= b THEN a ELSE b

SeqsUpTo(S, n) == UNION {[1..k -> S] : k \in 0..n}

\* s[:n] for n >= 0, and the first n items a listing generator yields.
Take(s, n) == SubSeq(s, 1, Min(n, Len(s)))

Ids(s) == {s[i] : i \in 1..Len(s)}

-----------------------------------------------------------------------------
(* The scorer's response and the extraction of the score.                  *)

Lines == SeqsUpTo(Alphabet, MaxLineLen)

\* The lines the two-line texts are made of.
ShortLines ==
    { <<"x">>, <<"1">>, <<"Score:">>, <<"Score:", "0">>, <<"Score:", "1">> }

\* response.content: <<>> is a missing body (None), << <<>> >> the empty
\* string, anything else a text of one or two lines.
Contents ==
    {<<>>} \cup {<<l>> : l \in Lines}
           \cup {<<l1, l2>> : l1 \in ShortLines, l2 \in ShortLines}

\* bool(response.content)
Truthy(content) == content # <<>> /\ content # << <<>> >>

\* 'Score:' in line
HasLabel(line) == \E i \in 1..Len(line) : line[i] = "Score:"

\* str.isdigit on one character
IsDigit(ch) == ch \in {"0", "1"}

DigitValue(ch) == IF ch = "1" THEN 1 ELSE 0

\* int(digits) for a non-empty string of digit characters
RECURSIVE IntOf(_)
IntOf(digits) ==
    IF Len(digits) = 0 THEN 0
    ELSE 10 * IntOf(SubSeq(digits, 1, Len(digits) - 1))
         + DigitValue(digits[Len(digits)])

\* [line for line in response_text.split('\n') if 'Score:' in line][0]
ScoreLine(text) ==
    text[CHOOSE i \in 1..Len(text) :
             /\ HasLabel(text[i])
             /\ \A j \in 1..(i - 1) : ~HasLabel(text[j])]

\* The score the code extracts from a response text: the default min_score,
\* replaced by the integer made of the digit characters of the first line
\* holding the label; int('') raises and the bare except keeps the default.
ParseScore(text, default) ==
    IF \E i \in 1..Len(text) : HasLabel(text[i])
    THEN LET digits == SelectSeq(ScoreLine(text), IsDigit)
         IN  IF digits = <<>> THEN default ELSE IntOf(digits)
    ELSE default

\* The response text holds a line with the label whose digit characters
\* make an integer (history only: the code keeps no such flag).
Parsed(text) ==
    /\ \E i \in 1..Len(text) : HasLabel(text[i])
    /\ SelectSeq(ScoreLine(text), IsDigit) # <<>>

\* The comparison of line 301 turned round.
MeetsThresholdFlipped(score, threshold) == score <= threshold

\* if score >= min_score
MeetsThreshold(score, threshold) == score >= threshold

-----------------------------------------------------------------------------
(* The ranking queries.                                                    *)

\* What one ranking query of a subreddit can yield before the limit is
\* applied.  A listing may hold a post twice: the rankings move while the
\* generator pages through them.
Listings(subreddit) ==
    IF subreddit = "r1" THEN {<<>>, <<"a">>}
    ELSE SeqsUpTo({"b", "c", "d"}, MaxListing)

\* limit=min(limit_per_subreddit, 1000)
NewLimit(cap) == Min(cap, QueryMax)

\* The limit of lines 197 and 209 without the posts already accumulated.
StageLimitWhole(cap, acc) == Min(cap, QueryMax)

\* limit=min(limit_per_subreddit - len(all_posts_from_subreddit), 1000)
StageLimit(cap, acc) == Min(cap - Len(acc), QueryMax)

\* The filter of lines 200 and 211 handing the posts back last first.
UniqueLastFirst(posts, acc) ==
    LET kept == SelectSeq(posts, LAMBDA p : p \notin Ids(acc))
    IN  [i \in 1..Len(kept) |-> kept[Len(kept) + 1 - i]]

\* [p for p in posts if p.id not in existing_ids]
Unique(posts, acc) == SelectSeq(posts, LAMBDA p : p \notin Ids(acc))

\* all_posts_from_subreddit[:limit_per_subreddit]
Truncate(acc, cap) == Take(acc, cap)

\* The subreddit of the current iteration of the loop of line 164.
Subreddit == Subreddits[idx]

\* The five fields the handler wants filled (line 668).
Credentials ==
    { "openai_api_key", "reddit_client_id", "reddit_client_secret",
      "reddit_username", "reddit_password" }

\* The keyword list of the sidebar when it is not empty (line 396).
Keywords == << "kw" >>

\* The sidebar with everything the handler asks for.
FilledInputs ==
    [ filled |-> Credentials, subreddits |-> Subreddits, keywords |-> Keywords ]

\* Lines 73-84: the session state of a fresh session.
DefaultSession ==
    [ leads |-> <<>>, all_posts |-> <<>>,
      search_stats |-> [total_posts |-> 0, posts_analyzed |-> 0, leads_found |-> 0],
      search_completed |-> FALSE ]

\* Lines 99-101, and the arguments: the locals of track_leads_function when
\* its loop is entered.
RunLocals ==
    /\ limit_per_subreddit \in Caps
    /\ min_score \in MinScores
    /\ idx = 1
    /\ all_posts_from_subreddit = <<>>
    /\ subreddit_posts = <<>>
    /\ pos = 1
    /\ all_leads = <<>>
    /\ all_posts_explored = <<>>
    /\ stats = [total_posts |-> 0, posts_analyzed |-> 0, leads_found |-> 0]
    /\ warning = "none"
    /\ scorer_log = <<>>
    /\ skipped = 0
    /\ fetched = <<>>
    /\ rankings = <<>>

Init ==
    /\ RunLocals
    /\ pc = "start"
    /\ session = DefaultSession
    /\ error = "none"
    /\ inputs = FilledInputs
    /\ response_text = <<>>
    /\ score_out = 0

Warn(kind) == warning' = kind

\* History: the query of `stage` drew from `listing`.
Drew(stage, listing) ==
    rankings' = Append(rankings, [stage |-> stage, listing |-> listing])

NoWarning == warning' = "none"

\* The error of lines 167-180 leaving track_leads_function, uncaught.
SubredditErrorRaised == "aborted"

\* except Exception as subreddit_error (line 337): a warning, and the loop
\* goes on with the progress update of line 341.
AfterSubredditError == "progress"

\* Lines 164-183: the subreddit object is obtained; a failure here is caught
\* by the outer except clause (line 337) and the subreddit is left.
StartSubreddit ==
    /\ pc = "start"
    /\ \/ /\ all_posts_from_subreddit' = <<>>
          /\ pc' = "new"
          /\ NoWarning
       \/ /\ Warn("subreddit")
          /\ pc' = AfterSubredditError
          /\ UNCHANGED all_posts_from_subreddit
    /\ rankings' = <<>>
    /\ UNCHANGED << outer, fetched, limit_per_subreddit, min_score, idx, subreddit_posts,
                    pos, all_leads, all_posts_explored, stats, scorer_log, skipped >>

\* if limit_per_subreddit > 1000
AfterNew == IF limit_per_subreddit > QueryMax THEN "top" ELSE "slice"

\* What a query step leaves alone, the history of the listings apart.
QueryFrame ==
    UNCHANGED << outer, limit_per_subreddit, min_score, idx, subreddit_posts, pos,
                 all_leads, all_posts_explored, stats, scorer_log, skipped >>

\* Lines 185-190: strategy 1, 'new', answered from `listing`.
NewPosts(listing) ==
    /\ pc = "new"
    /\ LET new_posts == Take(listing, NewLimit(limit_per_subreddit))
       IN  /\ all_posts_from_subreddit' = all_posts_from_subreddit \o new_posts
           /\ fetched' = new_posts
    /\ NoWarning
    /\ pc' = AfterNew
    /\ QueryFrame

\* Lines 191-192: strategy 1 fails.
NewFails ==
    /\ pc = "new"
    /\ Warn("new")
    /\ fetched' = <<>>
    /\ pc' = AfterNew
    /\ UNCHANGED all_posts_from_subreddit
    /\ QueryFrame

\* Lines 185-194: strategy 1, 'new'.
FetchNew ==
    /\ pc = "new"
    /\ \/ \E listing \in Listings(Subreddit) : NewPosts(listing)
       \/ NewFails
    /\ UNCHANGED rankings

\* Strategy 3 left out after strategy 2.
AfterTopNoHot(acc) == "slice"

\* if len(all_posts_from_subreddit) < limit_per_subreddit
AfterTop(acc) == IF Len(acc) < limit_per_subreddit THEN "hot" ELSE "slice"

\* Lines 195-202: strategy 2, 'top', answered from `listing`.
TopPosts(listing) ==
    /\ pc = "top"
    /\ LET top_posts ==
               Take(listing, StageLimit(limit_per_subreddit, all_posts_from_subreddit))
           unique_top_posts == Unique(top_posts, all_posts_from_subreddit)
       IN  /\ all_posts_from_subreddit' = all_posts_from_subreddit \o unique_top_posts
           /\ fetched' = top_posts
    /\ NoWarning
    /\ pc' = AfterTop(all_posts_from_subreddit')
    /\ QueryFrame

\* Lines 203-204: strategy 2 fails.
TopFails ==
    /\ pc = "top"
    /\ Warn("top")
    /\ fetched' = <<>>
    /\ UNCHANGED all_posts_from_subreddit
    /\ pc' = AfterTop(all_posts_from_subreddit')
    /\ QueryFrame

\* Lines 195-207: strategy 2, 'top'.
FetchTop ==
    /\ pc = "top"
    /\ \/ \E listing \in Listings(Subreddit) : TopPosts(listing)
       \/ TopFails
    /\ UNCHANGED rankings

\* Lines 208-213: strategy 3, 'hot', answered from `listing`.
HotPosts(listing) ==
    /\ pc = "hot"
    /\ LET hot_posts ==
               Take(listing, StageLimit(limit_per_subreddit, all_posts_from_subreddit))
           unique_hot_posts == Unique(hot_posts, all_posts_from_subreddit)
       IN  /\ all_posts_from_subreddit' = all_posts_from_subreddit \o unique_hot_posts
           /\ fetched' = hot_posts
    /\ NoWarning
    /\ pc' = "slice"
    /\ QueryFrame

\* Lines 214-215: strategy 3 fails.
HotFails ==
    /\ pc = "hot"
    /\ Warn("hot")
    /\ fetched' = <<>>
    /\ UNCHANGED all_posts_from_subreddit
    /\ pc' = "slice"
    /\ QueryFrame

\* Lines 208-215: strategy 3, 'hot'.
FetchHot ==
    /\ pc = "hot"
    /\ \/ \E listing \in Listings(Subreddit) : HotPosts(listing)
       \/ HotFails
    /\ UNCHANGED rankings

\* for post in subreddit_posts: the loop is left when the posts are used up.
LoopPc(posts, i) == IF i <= Len(posts) THEN "post" ELSE "progress"

\* Lines 217-223: the cut to the cap and the total_posts counter.
SlicePosts ==
    /\ pc = "slice"
    /\ subreddit_posts' = Truncate(all_posts_from_subreddit, limit_per_subreddit)
    /\ stats' = [stats EXCEPT !.total_posts = @ + Len(subreddit_posts')]
    /\ pos' = 1
    /\ pc' = LoopPc(subreddit_posts', 1)
    /\ fetched' = <<>>
    /\ rankings' = <<>>
    /\ NoWarning
    /\ UNCHANGED << outer, limit_per_subreddit, min_score, idx, all_posts_from_subreddit,
                    all_leads, all_posts_explored, scorer_log, skipped >>

-----------------------------------------------------------------------------
(* The analysis of one post, lines 223-335.                                *)

Post == subreddit_posts[pos]

\* post_info as first built (lines 229-241), with the keyword flag of line 245.
PostInfo(post, subreddit, matches_keywords) ==
    [ post |-> post, subreddit |-> subreddit,
      matched_keywords |-> matches_keywords,
      ai_analyzed |-> FALSE, is_lead |-> FALSE ]

\* post_info['ai_analyzed'] = True (line 282)
Analyzed(post_info) == [post_info EXCEPT !.ai_analyzed = TRUE]

\* post_info['ai_score'] = score (line 297); the dictionary gains the key.
WithScore(post_info, score) ==
    [k \in DOMAIN post_info \cup {"ai_score"} |->
        IF k = "ai_score" THEN score ELSE post_info[k]]

\* post_info['is_lead'] = True (line 302)
MarkedLead(post_info) == [post_info EXCEPT !.is_lead = TRUE]

\* lead_data of lines 304-314 (ai_analysis is the response text) and of
\* lines 318-328 (ai_analysis is the fixed "unavailable" sentence).
LeadData(post, subreddit, score, analysis) ==
    [ post |-> post, subreddit |-> subreddit,
      relevance_score |-> score, ai_analysis |-> analysis ]

\* The fallback lead of line 324 given no score.
FallbackScoreZero(threshold) == 0

\* "relevance_score": min_score (line 324)
FallbackScore(threshold) == threshold

\* The test of line 247 left out: every post that could be read is analysed.
MatchesAnything(post) == post \notin Malformed

\* any(keyword.lower() in title or keyword.lower() in content ...), line 244;
\* the line is reached only when the record could be built.
MatchesKeywords(post) == post \notin Malformed /\ post \in WithKeyword

\* The next iteration of the loop over subreddit_posts.
NextPost ==
    /\ pos' = pos + 1
    /\ pc' = LoopPc(subreddit_posts, pos + 1)
    /\ NoWarning

\* One call of lead_tracker_agent.run (line 283) for the current post.
Called(outcome) ==
    scorer_log' = Append(scorer_log, [idx |-> idx, pos |-> pos, outcome |-> outcome])

\* The except clause of line 334 falling through to the append of line 332.
PostErrorRecorded ==
    /\ pc = "post"
    /\ subreddit_posts[pos] \in Malformed
    /\ skipped' = skipped + 1
    /\ all_posts_explored' =
           Append(all_posts_explored,
                  [ post |-> subreddit_posts[pos], subreddit |-> Subreddits[idx],
                    matched_keywords |-> FALSE, ai_analyzed |-> FALSE,
                    is_lead |-> FALSE ])
    /\ pos' = pos + 1
    /\ pc' = IF pos + 1 <= Len(subreddit_posts) THEN "post" ELSE "progress"
    /\ warning' = "none"
    /\ UNCHANGED << outer, rankings, fetched, limit_per_subreddit, min_score, idx, all_posts_from_subreddit,
                    subreddit_posts, all_leads, stats, scorer_log >>

\* Lines 224-245 raise (a malformed post): except ... continue.
PostError ==
    /\ pc = "post"
    /\ Post \in Malformed
    /\ skipped' = skipped + 1
    /\ NextPost
    /\ UNCHANGED << outer, rankings, fetched, limit_per_subreddit, min_score, idx, all_posts_from_subreddit,
                    subreddit_posts, all_leads, all_posts_explored, stats,
                    scorer_log >>

\* The post matches a keyword and the prompt of lines 250-279 raises (the
\* body cannot be sliced): posts_analyzed is already incremented (line 248).
PromptError ==
    /\ pc = "post"
    /\ MatchesKeywords(Post)
    /\ Post \in MaybeUnsliceable
    /\ stats' = [stats EXCEPT !.posts_analyzed = @ + 1]
    /\ skipped' = skipped + 1
    /\ NextPost
    /\ UNCHANGED << outer, rankings, fetched, limit_per_subreddit, min_score, idx, all_posts_from_subreddit,
                    subreddit_posts, all_leads, all_posts_explored, scorer_log >>

\* No keyword matches: the record is appended with all flags false.
PostNoMatch ==
    /\ pc = "post"
    /\ ~MatchesKeywords(Post)
    /\ all_posts_explored' = Append(all_posts_explored, PostInfo(Post, Subreddit, FALSE))
    /\ NextPost
    /\ UNCHANGED << outer, rankings, fetched, limit_per_subreddit, min_score, idx, all_posts_from_subreddit,
                    subreddit_posts, all_leads, stats, scorer_log, skipped >>

\* post_info after a response with content (lines 297-302).
ScoredInfo(post_info, score) ==
    IF MeetsThreshold(score, min_score)
    THEN MarkedLead(WithScore(post_info, score))
    ELSE WithScore(post_info, score)

\* A keyword matches and lead_tracker_agent.run returns (lines 281-315).
PostScored ==
    /\ pc = "post"
    /\ MatchesKeywords(Post)
    /\ \E content \in Contents :
         LET post_info == Analyzed(PostInfo(Post, Subreddit, TRUE))
             score == ParseScore(content, min_score)
         IN  IF Truthy(content)
             THEN /\ all_posts_explored' =
                        Append(all_posts_explored, ScoredInfo(post_info, score))
                  /\ IF MeetsThreshold(score, min_score)
                     THEN /\ all_leads' =
                                Append(all_leads, LeadData(Post, Subreddit, score, "response"))
                          /\ stats' = [stats EXCEPT !.posts_analyzed = @ + 1,
                                                    !.leads_found = @ + 1]
                     ELSE /\ stats' = [stats EXCEPT !.posts_analyzed = @ + 1]
                          /\ UNCHANGED all_leads
                  /\ Called(IF Parsed(content) THEN "parsed" ELSE "unparseable")
             ELSE /\ all_posts_explored' = Append(all_posts_explored, post_info)
                  /\ stats' = [stats EXCEPT !.posts_analyzed = @ + 1]
                  /\ Called("empty")
                  /\ UNCHANGED all_leads
    /\ NextPost
    /\ UNCHANGED << outer, rankings, fetched, limit_per_subreddit, min_score, idx, all_posts_from_subreddit,
                    subreddit_posts, skipped >>

\* A keyword matches and lead_tracker_agent.run raises (lines 316-329): the
\* fallback lead is appended; is_lead and leads_found are not touched.
PostScorerRaises ==
    /\ pc = "post"
    /\ MatchesKeywords(Post)
    /\ all_leads' = Append(all_leads,
                       LeadData(Post, Subreddit, FallbackScore(min_score), "unavailable"))
    /\ all_posts_explored' =
           Append(all_posts_explored, Analyzed(PostInfo(Post, Subreddit, TRUE)))
    /\ stats' = [stats EXCEPT !.posts_analyzed = @ + 1]
    /\ Called("raised")
    /\ NextPost
    /\ UNCHANGED << outer, rankings, fetched, limit_per_subreddit, min_score, idx, all_posts_from_subreddit,
                    subreddit_posts, skipped >>

\* Lines 340-346: the next subreddit, or the end of the loop and
\* return all_leads, all_posts_explored, stats.
NextSubreddit ==
    /\ pc = "progress"
    /\ idx' = idx + 1
    /\ pc' = IF idx < Len(Subreddits) THEN "start" ELSE "done"
    /\ NoWarning
    /\ UNCHANGED << outer, rankings, fetched, limit_per_subreddit, min_score, all_posts_from_subreddit,
                    subreddit_posts, pos, all_leads, all_posts_explored, stats,
                    scorer_log, skipped >>

Next ==
    \/ StartSubreddit
    \/ FetchNew
    \/ FetchTop
    \/ FetchHot
    \/ SlicePosts
    \/ PostError
    \/ PromptError
    \/ PostNoMatch
    \/ PostScored
    \/ PostScorerRaises
    \/ NextSubreddit

Spec == Init /\ [][Next]_vars

-----------------------------------------------------------------------------
(* The handler of the search button, lines 666-696.  One behaviour is one  *)
(* execution of the script after a click: st.rerun() starts the next.      *)

\* What the sidebar can hold at a click: any of the credentials left
\* empty, either list empty.
Inputs ==
    [ filled : SUBSET Credentials,
      subreddits : {<<>>, Subreddits},
      keywords : {<<>>, Keywords} ]

\* The session state an earlier search stored: the one post of the first
\* subreddit was scored 10 and the other subreddit had no posts.
StoredSession ==
    [ leads |-> << LeadData("a", "r1", MinScoreHi, "response") >>,
      all_posts |->
          << MarkedLead(WithScore(Analyzed(PostInfo("a", "r1", TRUE)), MinScoreHi)) >>,
      search_stats |-> [total_posts |-> 1, posts_analyzed |-> 1, leads_found |-> 1],
      search_completed |-> TRUE ]

\* The session state the script can find: the defaults or an earlier result.
Sessions == {DefaultSession, StoredSession}

\* The handler without the check of the keyword list (lines 671-672).
ValidationWithoutKeywords(given) ==
    IF given.filled # Credentials THEN "credentials"
    ELSE IF Len(given.subreddits) = 0 THEN "subreddits"
    ELSE "none"

\* Lines 667-672: the st.error the inputs earn, "none" when they pass.
Validation(given) ==
    IF given.filled # Credentials THEN "credentials"
    ELSE IF Len(given.subreddits) = 0 THEN "subreddits"
    ELSE IF Len(given.keywords) = 0 THEN "keywords"
    ELSE "none"

HandlerInit ==
    /\ RunLocals
    /\ pc = "click"
    /\ session \in Sessions
    /\ error = "none"
    /\ inputs \in Inputs
    /\ response_text = <<>>
    /\ score_out = 0

\* What the handler leaves alone before and after the run.
HandlerFrame ==
    UNCHANGED << inputs, response_text, score_out, limit_per_subreddit, min_score, idx,
                 all_posts_from_subreddit, subreddit_posts, pos, all_leads,
                 all_posts_explored, stats, warning, scorer_log, skipped, fetched,
                 rankings >>

\* Lines 667-672: an input is missing; st.error, and the script goes on to
\* the footer.
RejectSearch ==
    /\ pc = "click"
    /\ Validation(inputs) # "none"
    /\ error' = Validation(inputs)
    /\ pc' = "rejected"
    /\ UNCHANGED session
    /\ HandlerFrame

\* Lines 673-686: the inputs pass and track_leads_function is called.
AcceptSearch ==
    /\ pc = "click"
    /\ Validation(inputs) = "none"
    /\ pc' = "call"
    /\ UNCHANGED << session, error >>
    /\ HandlerFrame

\* Lines 99-161: the tools and the agent are built and the loop is entered.
EnterLoop ==
    /\ pc = "call"
    /\ pc' = "start"
    /\ UNCHANGED << session, error >>
    /\ HandlerFrame

\* Lines 104-156 raise (nothing of track_leads_function catches it) and
\* the except clause of line 694 reports it.
SearchRaises ==
    /\ pc = "call"
    /\ error' = "exception"
    /\ pc' = "failed"
    /\ UNCHANGED session
    /\ HandlerFrame

\* Lines 689-693: the results are stored and the script is run again.
StoreResults ==
    /\ pc = "done"
    /\ session' = [ leads |-> all_leads, all_posts |-> all_posts_explored,
                    search_stats |-> stats, search_completed |-> TRUE ]
    /\ pc' = "rerun"
    /\ UNCHANGED error
    /\ HandlerFrame

HandlerNext ==
    \/ RejectSearch
    \/ AcceptSearch
    \/ EnterLoop
    \/ SearchRaises
    \/ StartSubreddit
    \/ FetchNew
    \/ FetchTop
    \/ FetchHot
    \/ SlicePosts
    \/ PostError
    \/ PromptError
    \/ PostNoMatch
    \/ PostScored
    \/ PostScorerRaises
    \/ NextSubreddit
    \/ StoreResults

HandlerSpec == HandlerInit /\ [][HandlerNext]_vars

-----------------------------------------------------------------------------
(* The collection of one subreddit, lines 164-220, with the listings the   *)
(* queries drew from kept in `rankings` until the cut.  It starts where    *)
(* the loop reaches the last subreddit with nothing found in the others.   *)

CollectInit ==
    /\ limit_per_subreddit \in Caps
    /\ min_score \in MinScores
    /\ pc = "start"
    /\ idx = Len(Subreddits)
    /\ all_posts_from_subreddit = <<>>
    /\ subreddit_posts = <<>>
    /\ pos = 1
    /\ all_leads = <<>>
    /\ all_posts_explored = <<>>
    /\ stats = [total_posts |-> 0, posts_analyzed |-> 0, leads_found |-> 0]
    /\ warning = "none"
    /\ scorer_log = <<>>
    /\ skipped = 0
    /\ fetched = <<>>
    /\ rankings = <<>>
    /\ session = DefaultSession
    /\ error = "none"
    /\ inputs = FilledInputs
    /\ response_text = <<>>
    /\ score_out = 0

\* Lines 185-194, the listing remembered.
RankedNew ==
    /\ pc = "new"
    /\ \/ \E listing \in Listings(Subreddit) :
            NewPosts(listing) /\ Drew("new", listing)
       \/ NewFails /\ UNCHANGED rankings

\* Lines 195-207, the listing remembered.
RankedTop ==
    /\ pc = "top"
    /\ \/ \E listing \in Listings(Subreddit) :
            TopPosts(listing) /\ Drew("top", listing)
       \/ TopFails /\ UNCHANGED rankings

\* Lines 208-215, the listing remembered.
RankedHot ==
    /\ pc = "hot"
    /\ \/ \E listing \in Listings(Subreddit) :
            HotPosts(listing) /\ Drew("hot", listing)
       \/ HotFails /\ UNCHANGED rankings

CollectNext ==
    \/ StartSubreddit
    \/ RankedNew
    \/ RankedTop
    \/ RankedHot
    \/ SlicePosts

CollectSpec == CollectInit /\ [][CollectNext]_vars

-----------------------------------------------------------------------------
(* The extraction of the score alone, lines 286-295, applied to a          *)
(* response text that passed the test of line 285.                         *)

\* The texts handed to the extraction: one line, or two lines of which one
\* is a short one.
ParseTexts ==
    {<<l>> : l \in Lines \ {<<>>}}
        \cup {<<l1, l2>> : l1 \in Lines, l2 \in ShortLines}
        \cup {<<l1, l2>> : l1 \in ShortLines, l2 \in Lines}

ParseInit ==
    /\ RunLocals
    /\ pc = "extract"
    /\ session = DefaultSession
    /\ error = "none"
    /\ inputs = FilledInputs
    /\ response_text \in ParseTexts
    /\ score_out = 0

\* Lines 288-295: score = min_score, then the digits of the first line
\* holding the label.
ExtractScore ==
    /\ pc = "extract"
    /\ score_out' = ParseScore(response_text, min_score)
    /\ pc' = "extracted"
    /\ UNCHANGED << session, error, inputs, response_text, limit_per_subreddit,
                    min_score, idx, all_posts_from_subreddit, subreddit_posts, pos,
                    all_leads, all_posts_explored, stats, warning, scorer_log, skipped,
                    fetched, rankings >>

ParseNext == ExtractScore

ParseSpec == ParseInit /\ [][ParseNext]_vars

-----------------------------------------------------------------------------
(* Helpers of the properties.                                              *)

Last(s) == s[Len(s)]

Count(s, P(_)) == Cardinality({i \in 1..Len(s) : P(s[i])})

IsLead(post_info) == post_info.is_lead

NoDuplicateIds(s) == \A i, j \in 1..Len(s) : i # j => s[i] # s[j]

\* The step is a call of the scorer that ended with one of `outcomes`.
ScorerStep(outcomes) ==
    /\ Len(scorer_log') = Len(scorer_log) + 1
    /\ Last(scorer_log').outcome \in outcomes

-----------------------------------------------------------------------------
\* C1: at the end of a run the number of leads equals the number of explored
\* records flagged is_lead, and every lead has an explored record of its
\* post that is flagged is_lead.  (Stated as claimed; the code violates it.)
C1_LeadsMatchFlags ==
    pc = "done" =>
        /\ Len(all_leads) = Count(all_posts_explored, IsLead)
        /\ \A k \in 1..Len(all_leads) :
             \E i \in 1..Len(all_posts_explored) :
                /\ all_posts_explored[i].is_lead
                /\ all_posts_explored[i].post = all_leads[k].post
                /\ all_posts_explored[i].subreddit = all_leads[k].subreddit

\* C2: every lead has relevance_score >= min_score, whichever way it was
\* produced.
C2_LeadScoreAtLeastMin ==
    \A k \in 1..Len(all_leads) : all_leads[k].relevance_score >= min_score

\* A finished run with threshold 7 that produced a lead from a parsed score
\* above the threshold, a lead from an unparseable response (score 7, which
\* no response of the model spells) and a lead from a scorer failure.
C2_Witness ==
    /\ pc = "done"
    /\ min_score = 7
    /\ \E k \in 1..Len(all_leads) :
         all_leads[k].ai_analysis = "response" /\ all_leads[k].relevance_score > 7
    /\ \E k \in 1..Len(all_leads) :
         all_leads[k].ai_analysis = "response" /\ all_leads[k].relevance_score = 7
    /\ \E k \in 1..Len(all_leads) : all_leads[k].ai_analysis = "unavailable"

\* C3: the collected sequence subreddit_posts holds no identifier twice.
\* (Stated as claimed; the code violates it.)
C3_NoDuplicates == NoDuplicateIds(subreddit_posts)

\* C4: the accumulated and the collected sequence never hold more than cap
\* items, and no step adds more than cap to stats.total_posts.
C4_AtMostCap ==
    /\ [](/\ Len(all_posts_from_subreddit) <= limit_per_subreddit
          /\ Len(subreddit_posts) <= limit_per_subreddit)
    /\ [][stats'.total_posts - stats.total_posts <= limit_per_subreddit]_vars

\* A subreddit collected exactly cap posts with a cap above the per-query
\* ceiling, after another subreddit had already been counted.
C4_Witness ==
    /\ pc = "post"
    /\ limit_per_subreddit > QueryMax
    /\ Len(subreddit_posts) = limit_per_subreddit
    /\ stats.total_posts > limit_per_subreddit

\* C5: a step in which the scorer raises appends the lead of the current
\* post with score exactly min_score and the "unavailable" rationale, makes
\* exactly one call, appends the explored record and moves to the next
\* post; and no post is ever sent to the scorer twice.
C5_ScorerFailureAccepts ==
    /\ [](\A m, n \in 1..Len(scorer_log) :
            (scorer_log[m].idx = scorer_log[n].idx
             /\ scorer_log[m].pos = scorer_log[n].pos) => m = n)
    /\ [][ScorerStep({"raised"}) =>
            /\ all_leads' = Append(all_leads,
                   [ post |-> subreddit_posts[pos], subreddit |-> Subreddits[idx],
                     relevance_score |-> min_score, ai_analysis |-> "unavailable" ])
            /\ Len(all_posts_explored') = Len(all_posts_explored) + 1
            /\ Last(scorer_log').idx = idx /\ Last(scorer_log').pos = pos
            /\ pos' = pos + 1 /\ idx' = idx
            /\ pc' \in {"post", "progress"}]_vars

\* The scorer raised on a post and the run is about to analyse the next one.
C5_Witness ==
    /\ pc = "post"
    /\ Len(scorer_log) > 0
    /\ Last(scorer_log).outcome = "raised"
    /\ Last(scorer_log).idx = idx
    /\ Last(scorer_log).pos = pos - 1

\* C6: when the scorer returns and the response has no body or yields no
\* score, the post gets score min_score and becomes a lead.  (Stated as
\* claimed; the code violates it for a response without body.)
C6_NoScoreMeansLead ==
    [][ScorerStep({"empty", "unparseable"}) =>
         /\ all_leads' = Append(all_leads,
                [ post |-> subreddit_posts[pos], subreddit |-> Subreddits[idx],
                  relevance_score |-> min_score, ai_analysis |-> "response" ])
         /\ Last(all_posts_explored').is_lead]_vars

\* C7: every lead's relevance score lies in 1..10, and is exactly 10 when
\* min_score is 10.  (Stated as claimed; the code violates it.)
C7_LeadScoreInRange ==
    \A k \in 1..Len(all_leads) :
        /\ all_leads[k].relevance_score \in MinScoreLo..MinScoreHi
        /\ min_score = MinScoreHi => all_leads[k].relevance_score = MinScoreHi

\* C8: with min_score 1 every post the scorer returned a response for becomes
\* a lead.  (Stated as claimed; the code violates it.)
C8_MinOneAcceptsAll ==
    [][(min_score = MinScoreLo /\ ScorerStep({"empty", "unparseable", "parsed"})) =>
         /\ Len(all_leads') = Len(all_leads) + 1
         /\ Last(all_posts_explored').is_lead]_vars

\* C9 as claimed: a skipped post is counted in no statistic, so a finished
\* run has counted exactly the posts it has a record of.  (The code violates
\* it.)
C9_SkippedCountedNowhere ==
    pc = "done" =>
        /\ stats.total_posts = Len(all_posts_explored)
        /\ stats.posts_analyzed =
               Count(all_posts_explored, LAMBDA r : r.matched_keywords)

\* C9 as amended: a step that skips a post leaves the leads, the explored
\* records, the scorer and the counters total_posts and leads_found alone,
\* adds one to posts_analyzed exactly when the post had matched a keyword,
\* and moves to the next post; a finished run has counted in total_posts
\* the posts it has a record of and the posts it skipped.
C9_SkippedStaysFetched ==
    /\ [](pc = "done" => stats.total_posts = Len(all_posts_explored) + skipped)
    /\ [][skipped' # skipped =>
            /\ skipped' = skipped + 1
            /\ all_leads' = all_leads
            /\ all_posts_explored' = all_posts_explored
            /\ scorer_log' = scorer_log
            /\ stats'.total_posts = stats.total_posts
            /\ stats'.leads_found = stats.leads_found
            /\ stats'.posts_analyzed = stats.posts_analyzed
                   + (IF subreddit_posts[pos] \in WithKeyword \ Malformed THEN 1 ELSE 0)
            /\ pos' = pos + 1 /\ idx' = idx
            /\ pc' \in {"post", "progress"}]_vars

\* A finished run that skipped one post while building its record and one
\* while building its prompt.
C9_Witness ==
    /\ pc = "done"
    /\ skipped = 2
    /\ stats.posts_analyzed > Count(all_posts_explored, LAMBDA r : r.matched_keywords)
    /\ stats.total_posts > Len(all_posts_explored) + 1

\* C10: a step in which a ranking query fails leaves the accumulated posts
\* as they are and goes on to the next stage of that cap: after 'new' to
\* 'top' when the cap exceeds the ceiling, after 'top' to 'hot', and after
\* the last stage to the cut.
C10_StageFailureIsLocal ==
    [][warning' \in {"new", "top", "hot"} =>
         /\ all_posts_from_subreddit' = all_posts_from_subreddit
         /\ warning' = "new" =>
                pc' = IF limit_per_subreddit > QueryMax THEN "top" ELSE "slice"
         /\ warning' = "top" => pc' = "hot"
         /\ warning' = "hot" => pc' = "slice"]_vars

\* The 'top' query failed after 'new' had accumulated posts, and 'hot' is
\* about to be tried.
C10_Witness ==
    /\ warning = "top"
    /\ pc = "hot"
    /\ Len(all_posts_from_subreddit) > 0

-----------------------------------------------------------------------------
\* C11: whatever fails, a run that has not returned can always take its next
\* step, the subreddits are taken one by one in the given order, each from
\* line 164 on, and the run ends only past the last one; an unreachable
\* subreddit (the subreddit object cannot be obtained, or every query of
\* it fails) leaves all_leads, all_posts_explored and stats as they were.
C11_RunNeverAborts ==
    /\ [](pc # "done" => ENABLED Next)
    /\ [](pc = "done" => idx = Len(Subreddits) + 1)
    /\ [][
          /\ idx' # idx =>
              /\ pc = "progress"
              /\ idx' = idx + 1
              /\ pc' = IF idx' <= Len(Subreddits) THEN "start" ELSE "done"
          /\ warning' = "subreddit" =>
              /\ pc' = "progress"
              /\ UNCHANGED << all_leads, all_posts_explored, stats >>
          /\ (pc = "slice" /\ all_posts_from_subreddit = <<>>) =>
              /\ pc' = "progress"
              /\ UNCHANGED << all_leads, all_posts_explored, stats >>
          /\ pc = "progress" =>
              UNCHANGED << all_leads, all_posts_explored, stats >>
       ]_vars

\* The last subreddit proves unreachable after the scorer raised on a post of
\* the first and a lead was recorded; the loop is at its progress update.
C11_Witness ==
    /\ warning = "subreddit"
    /\ pc = "progress"
    /\ idx = Len(Subreddits)
    /\ all_leads # <<>>
    /\ \E n \in 1..Len(scorer_log) : scorer_log[n].outcome = "raised"

-----------------------------------------------------------------------------
\* C12: a click with a credential left empty, or with no subreddit, or with
\* no keyword, ends in st.error and nothing else: track_leads_function is not
\* entered, so no query and no scorer call is made then or later, and the
\* stored leads, posts, statistics and search_completed flag stay as found.
C12_InvalidInputsStartNothing ==
    /\ [][(/\ pc = "click"
           /\ \/ inputs.filled # Credentials
              \/ inputs.subreddits = <<>>
              \/ inputs.keywords = <<>>) =>
              /\ error' \in {"credentials", "subreddits", "keywords"}
              /\ pc' = "rejected"
              /\ session' = session
              /\ scorer_log' = scorer_log
              /\ fetched' = fetched
              /\ all_posts_from_subreddit' = all_posts_from_subreddit]_vars
    /\ [](pc = "rejected" =>
              /\ ~ ENABLED HandlerNext
              /\ scorer_log = <<>>
              /\ all_posts_from_subreddit = <<>>
              /\ stats.total_posts = 0)

\* The click with an empty keyword list was refused while the session holds
\* the lead of an earlier search.
C12_Witness ==
    /\ pc = "rejected"
    /\ error = "keywords"
    /\ session.search_completed
    /\ session.leads # <<>>

-----------------------------------------------------------------------------
\* The listing the query of `stage` drew from in the current subreddit;
\* the empty one when the stage was not queried or failed.
Ranking(stage) ==
    IF \E n \in 1..Len(rankings) : rankings[n].stage = stage
    THEN rankings[CHOOSE n \in 1..Len(rankings) : rankings[n].stage = stage].listing
    ELSE <<>>

\* C13: when the cap exceeds the ceiling of one query, 'new' yielded as many
\* posts as the ceiling, all different, and the 'top' ranking holds at least
\* cap - ceiling posts that are not among them, the cut leaves exactly cap
\* posts.  (Stated as claimed; the code violates it.)
C13_CapReachedThroughTop ==
    [][(/\ pc = "slice"
        /\ limit_per_subreddit > QueryMax
        /\ LET new_posts == Take(Ranking("new"), NewLimit(limit_per_subreddit))
           IN  /\ Len(new_posts) = QueryMax
               /\ NoDuplicateIds(new_posts)
               /\ Cardinality(Ids(Ranking("top")) \ Ids(new_posts))
                      >= limit_per_subreddit - QueryMax) =>
           Len(subreddit_posts') = limit_per_subreddit]_vars

-----------------------------------------------------------------------------
\* C14: when the run has returned, the leads_found counter equals the number
\* of leads returned.  (Stated as claimed; the code violates it.)
C14_CounterEqualsLeads ==
    pc = "done" => stats.leads_found = Len(all_leads)

-----------------------------------------------------------------------------
\* The position of the label in a line that holds it.
LabelAt(line) ==
    CHOOSE k \in 1..Len(line) :
        line[k] = "Score:" /\ \A j \in 1..(k - 1) : line[j] # "Score:"

\* The digit characters that follow the label of `line` at once: the N of
\* "Score: N".
LabelNumber(line) ==
    LET k == LabelAt(line)
        stop == CHOOSE m \in k..Len(line) :
                    /\ \A j \in (k + 1)..m : IsDigit(line[j])
                    /\ m < Len(line) => ~IsDigit(line[m + 1])
    IN  SubSeq(line, k + 1, stop)

\* The integer a string of at most four digit characters spells.
Spelled(digits) ==
    LET n == Len(digits)
        at(i) == IF i <= n THEN DigitValue(digits[i]) ELSE 0
    IN  IF n = 1 THEN at(1)
        ELSE IF n = 2 THEN 10 * at(1) + at(2)
        ELSE IF n = 3 THEN 100 * at(1) + 10 * at(2) + at(3)
        ELSE 1000 * at(1) + 100 * at(2) + 10 * at(3) + at(4)

\* C15: for a response text with a line holding the label, whose first such
\* line reads "Score: N" with N a number, the score extracted is N.
\* (Stated as claimed; the code violates it.)
C15_ParsedIsLabelNumber ==
    (/\ pc = "extracted"
     /\ \E i \in 1..Len(response_text) : HasLabel(response_text[i])
     /\ LabelNumber(ScoreLine(response_text)) # <<>>) =>
        score_out = Spelled(LabelNumber(ScoreLine(response_text)))

-----------------------------------------------------------------------------
\* s can be had from t by leaving items out, the order kept.
RECURSIVE IsSubseq(_, _)
IsSubseq(s, t) ==
    IF s = <<>> THEN TRUE
    ELSE IF t = <<>> THEN FALSE
    ELSE IF Head(s) = Head(t) THEN IsSubseq(Tail(s), Tail(t))
    ELSE IsSubseq(s, Tail(t))

\* The subreddit and post of each record of s.
Keys(s) == [i \in 1..Len(s) |-> << s[i].subreddit, s[i].post >>]

\* The place of a subreddit in the list the caller gave.
Place(subreddit) == CHOOSE i \in 1..Len(Subreddits) : Subreddits[i] = subreddit

\* The records of s come subreddit by subreddit, in the caller's order.
BySubreddit(s) ==
    \A i, j \in 1..Len(s) : i < j => Place(s[i].subreddit) <= Place(s[j].subreddit)

\* The posts of the records of s that belong to `subreddit`.
PostsOf(s, subreddit) ==
    LET own == SelectSeq(s, LAMBDA r : r.subreddit = subreddit)
    IN  [i \in 1..Len(own) |-> own[i].post]

\* C16: the explored records and the leads come subreddit by subreddit in
\* the caller's order; within a subreddit they follow the collected posts,
\* which are what 'new' returned, then what 'top' returned and was not yet
\* there, then the same of 'hot', each in the order returned; and the leads
\* are the explored records with some left out, the order kept.
C16_OrderPreserved ==
    /\ [](/\ BySubreddit(all_posts_explored)
          /\ BySubreddit(all_leads)
          /\ IsSubseq(Keys(all_leads), Keys(all_posts_explored))
          /\ pc \in {"post", "progress"} =>
                /\ IsSubseq(PostsOf(all_posts_explored, Subreddit),
                            SubSeq(subreddit_posts, 1, pos - 1))
                /\ subreddit_posts =
                       SubSeq(all_posts_from_subreddit, 1, Len(subreddit_posts)))
    /\ [][
          /\ pc \in {"new", "top", "hot"} =>
              /\ Len(all_posts_from_subreddit') >= Len(all_posts_from_subreddit)
              /\ SubSeq(all_posts_from_subreddit', 1, Len(all_posts_from_subreddit))
                     = all_posts_from_subreddit
              /\ LET added == SubSeq(all_posts_from_subreddit',
                                     Len(all_posts_from_subreddit) + 1,
                                     Len(all_posts_from_subreddit'))
                 IN  /\ IsSubseq(added, fetched')
                     /\ pc = "new" => added = fetched'
                     /\ \A p \in Ids(fetched') :
                            p \in Ids(all_posts_from_subreddit')
          /\ all_posts_explored' # all_posts_explored =>
              /\ pc = "post"
              /\ Len(all_posts_explored') = Len(all_posts_explored) + 1
              /\ SubSeq(all_posts_explored', 1, Len(all_posts_explored))
                     = all_posts_explored
              /\ Last(Keys(all_posts_explored')) = << Subreddits[idx], subreddit_posts[pos] >>
              /\ pos' = pos + 1
          /\ all_leads' # all_leads =>
              /\ all_posts_explored' # all_posts_explored
              /\ all_leads' = Append(all_leads, Last(all_leads'))
              /\ Last(Keys(all_leads')) = << Subreddits[idx], subreddit_posts[pos] >>
          /\ pc = "post" =>
              /\ subreddit_posts' = subreddit_posts
              /\ idx' = idx
              /\ pos' \in {pos, pos + 1}
       ]_vars

\* The run has returned with leads of both subreddits, the second of which
\* gave three different posts through more than one ranking.
C16_Witness ==
    /\ pc = "done"
    /\ Len(subreddit_posts) = QueryMax + 1
    /\ NoDuplicateIds(subreddit_posts)
    /\ Len(all_posts_explored) >= 3
    /\ Len(all_leads) >= 2
    /\ all_leads[1].subreddit = Subreddits[1]
    /\ Last(all_leads).subreddit = Subreddits[Len(Subreddits)]

-----------------------------------------------------------------------------
\* The scorer calls the step makes.
Calls == Len(scorer_log') - Len(scorer_log)

\* The step takes the current post of the loop of line 223 and moves on.
TakesPost == pc = "post" /\ pos' = pos + 1

\* The current post could be read and holds a keyword.
Matched == subreddit_posts[pos] \in WithKeyword \ Malformed

\* What C17 says besides the count per matched post: no post is scored
\* twice and none without a keyword; a call belongs to the post the loop is
\* at and has ended, by a return or an exception, in the step that moves to
\* the next post; the calls follow the order of subreddits and posts; and
\* while a subreddit is queried every call and every record is of an
\* earlier subreddit, the index moving on only after the last post.
OneCallAtATime ==
    /\ [](/\ \A m, n \in 1..Len(scorer_log) :
                m < n =>
                    \/ scorer_log[m].idx < scorer_log[n].idx
                    \/ /\ scorer_log[m].idx = scorer_log[n].idx
                       /\ scorer_log[m].pos < scorer_log[n].pos
          /\ pc \in {"start", "new", "top", "hot", "slice"} =>
                /\ \A n \in 1..Len(scorer_log) : scorer_log[n].idx < idx
                /\ \A n \in 1..Len(all_posts_explored) :
                       Place(all_posts_explored[n].subreddit) < idx
          /\ pc = "progress" => pos = Len(subreddit_posts) + 1)
    /\ [][
          /\ Calls \in {0, 1}
          /\ Calls = 1 =>
              /\ TakesPost
              /\ Matched
              /\ Last(scorer_log').idx = idx
              /\ Last(scorer_log').pos = pos
              /\ Last(scorer_log').outcome \in {"parsed", "unparseable", "empty", "raised"}
          /\ idx' # idx => pc = "progress"
       ]_vars

\* C17 as claimed: besides the above, a step that takes a post calls the
\* scorer if the post matched a keyword.  (The code violates it.)
C17_CalledForEveryMatch ==
    /\ OneCallAtATime
    /\ [][(TakesPost /\ Matched) => Calls = 1]_vars

\* C17: the scorer is called at most once per collected post, never for a
\* post without a keyword, and exactly once for each post that matched a
\* keyword and was not skipped by the per-post except clause; each call
\* has ended before the next post is taken, and every post of a subreddit
\* before the first query of the next.
C17_CalledForEveryPrompt ==
    /\ OneCallAtATime
    /\ [][(TakesPost /\ Matched /\ skipped' = skipped) => Calls = 1]_vars
    /\ [][skipped' # skipped => Calls = 0]_vars

\* The run has returned after scorer calls in the last subreddit, a post
\* without a keyword, and a matched post whose prompt could not be built.
C17_Witness ==
    /\ pc = "done"
    /\ \E n \in 1..Len(scorer_log) : scorer_log[n].idx = Len(Subreddits)
    /\ stats.posts_analyzed > Len(scorer_log)
    /\ \E n \in 1..Len(all_posts_explored) : ~ all_posts_explored[n].matched_keywords

====
